---- MODULE Spec2Model ----
(***************************************************************************)
(* asdcontrol -- Apple Studio Display brightness control.                  *)
(*                                                                         *)
(* A model of main() and its helpers.  Two revisions of the program are    *)
(* in the repository: the current one (with percentage tokens) and the     *)
(* earlier src/asdcontrol.cpp (without).  The variable rev selects the     *)
(* revision a behaviour runs; Spec runs the current one, SpecOld the       *)
(* earlier one, SpecParse and SpecParseOld run only the argument loop of   *)
(* each over every short string, SpecCall calls the classifier functions   *)
(* on any device.                                                          *)
(*                                                                         *)
(* Strings are sequences of one-character strings.  int is 32 bits wide:   *)
(* every arithmetic operation of the program goes through Add32, Mul32 and *)
(* TruncDiv.  The silent flag only gates banner output and is left out.    *)
(***************************************************************************)
EXTENDS Integers, Sequences, FiniteSets, TLC

VARIABLES
    rev,            \* "new" (current revision) or "old" (src/asdcontrol.cpp)
    pc,             \* position of main()
    nargs,          \* positional arguments consumed so far
    force, brief,   \* behaviour options
    mode, brightness, amount, percent, open_mode,
    files,          \* FileList files
    it,             \* position of the iterator in files (1-based)
    fd,             \* the descriptor main holds, -1 when none
    openFds,        \* descriptors of the process that are open
    device_info,    \* struct hiddev_devinfo of the last HIDIOCGDEVINFO
    selected_device,\* const DeviceId*, NULL or a registry entry
    usage_ref_value,\* usage_ref.value
    first_device,
    exit_status,    \* "running", an exit code, or "SIGSEGV"
    held,           \* environment: the brightness each device node holds
    ops,            \* history: ioctls issued on the device being processed
    readValue,      \* history: <<v>> once HIDIOCGUSAGE read v from the device
    writes,         \* history: <<path, value>> of every HIDIOCSUSAGE issued
    out,            \* history: lines printed on stdout
    tokens,         \* history: positional arguments taken as brightness
    lastArg,        \* history: the positional argument consumed last
    supportedDevices,   \* SupportedDevices supportedDevices (global)
    supportedVendors,   \* the keys of SupportedVendors supportedVendors
    applications,   \* SpecCall: what HIDIOCAPPLICATION answers, by index
    result          \* SpecCall: the function called and what it returned

vars == <<rev, pc, nargs, force, brief, mode, brightness, amount, percent,
          open_mode, files, it, fd, openFds, device_info, selected_device,
          usage_ref_value, first_device, exit_status, held, ops,
          readValue, writes, out, tokens, lastArg, supportedDevices,
          supportedVendors, applications, result>>

-----------------------------------------------------------------------------
(* Bounds of the model *)

MaxLen == 4         \* SpecParse: every string up to this length
MaxFiles == 2       \* Spec: device paths on the command line
MaxApps == 3        \* SpecCall: applications of a device

-----------------------------------------------------------------------------
(* Program constants *)

USAGE_MODE_GET == 0
USAGE_MODE_SET == 1
USAGE_MODE_DETECT == 2
USAGE_MODE_SETREL == 3

APPLE == 1452                   \* 0x05ac
STUDIO_DISPLAY_27 == 4372       \* 0x1114

O_RDONLY == 0
O_RDWR == 2

NULL == [null |-> TRUE]

\* INT_MAX and INT_MIN of a 32-bit int
MaxInt32 == 2147483647
MinInt32 == -MaxInt32 - 1

-----------------------------------------------------------------------------
(* 32-bit int arithmetic.  Signed overflow is undefined in C++; the build  *)
(* (g++ -Og, x86 add/imul) produces the two's complement wrap, which is    *)
(* what these operators compute without leaving the 32-bit range.          *)

Add32(a, b) ==
    IF a > 0 /\ b > 0 /\ a > MaxInt32 - b
        THEN (a - MaxInt32 - 1) + (b - MaxInt32 - 1)
    ELSE IF a < 0 /\ b < 0 /\ a < MinInt32 - b
        THEN (a + MaxInt32 + 1) + (b + MaxInt32 + 1)
    ELSE a + b

\* the two 16-bit halves of the two's complement image of a
Hi16(a) == IF a >= 0 THEN a \div 65536 ELSE 65536 + (a \div 65536)
Lo16(a) == a % 65536

\* the int whose two's complement image has halves h, l
FromHalves(h, l) ==
    IF h >= 32768 THEN ((h - 65536) * 65536) + l ELSE (h * 65536) + l

\* x * y for 0 <= x, y < 65536, as halves <<high, low>> of the 32-bit product
Mul16(x, y) ==
    LET y1 == y \div 256
        y0 == y % 256
        p1 == x * y1                    \* < 2^24, weighs 2^8
        p0 == x * y0                    \* < 2^24
        lo == ((p1 % 256) * 256) + (p0 % 65536)
        hi == (p1 \div 256) + (p0 \div 65536) + (lo \div 65536)
    IN  <<hi % 65536, lo % 65536>>

Mul32(a, b) ==
    LET ll == Mul16(Lo16(a), Lo16(b))
        hl == Mul16(Hi16(a), Lo16(b))
        lh == Mul16(Lo16(a), Hi16(b))
    IN  FromHalves((ll[1] + hl[2] + lh[2]) % 65536, ll[2])

\* a / b of C++ for b > 0: the quotient truncated towards zero
TruncDiv(a, b) ==
    IF a >= 0 THEN a \div b
    ELSE LET n == -(a + 1)              \* -a - 1, never overflows
         IN  IF n % b = b - 1 THEN -((n \div b) + 1) ELSE -(n \div b)

min(a, b) == IF b < a THEN b ELSE a
max(a, b) == IF a < b THEN b ELSE a

-----------------------------------------------------------------------------
(* Strings *)

Digits == {"0", "1", "2", "3", "4", "5", "6", "7", "8", "9"}

DigitVal(c) ==
    CASE c = "0" -> 0 [] c = "1" -> 1 [] c = "2" -> 2 [] c = "3" -> 3
      [] c = "4" -> 4 [] c = "5" -> 5 [] c = "6" -> 6 [] c = "7" -> 7
      [] c = "8" -> 8 [] c = "9" -> 9

IsDigit(c) == c \in Digits

\* the alphabet of the exhaustively enumerated strings
Alphabet == {"0", "1", "2", "5", "+", "-", "%", "a"}

Strings(n) == UNION {[1..k -> Alphabet] : k \in 0..n}

-----------------------------------------------------------------------------
(* The brightness token parser *)

RECURSIVE numberLoopAnyPercent(_, _, _)
\* numberLoop without the test that the percent sign is the last character
numberLoopAnyPercent(str, i, hasPercent) ==
    IF i > Len(str) THEN TRUE
    ELSE IF str[i] = "%" /\ ~hasPercent
        THEN numberLoopAnyPercent(str, i + 1, TRUE)
    ELSE IF ~IsDigit(str[i]) THEN FALSE
    ELSE numberLoopAnyPercent(str, i + 1, hasPercent)

RECURSIVE numberLoop(_, _, _)
\* the for loop of number(): i is the position of str, starting after the
\* first character
numberLoop(str, i, hasPercent) ==
    IF i > Len(str) THEN TRUE
    ELSE IF str[i] = "%" /\ ~hasPercent THEN numberLoop(str, i + 1, TRUE)
    ELSE IF hasPercent THEN FALSE
    ELSE IF ~IsDigit(str[i]) THEN FALSE
    ELSE numberLoop(str, i + 1, hasPercent)

\* bool number ( const char* str ), current revision
number(str) ==
    IF str = <<>> THEN FALSE
    ELSE IF ~(IsDigit(str[1]) \/ str[1] = "+" \/ str[1] = "-") THEN FALSE
    ELSE numberLoop(str, 2, FALSE)

\* bool number ( const char* str ) of src/asdcontrol.cpp: its loop starts at
\* the first character again
numberOld(str) ==
    IF str = <<>> THEN FALSE
    ELSE IF ~(IsDigit(str[1]) \/ str[1] = "+" \/ str[1] = "-") THEN FALSE
    ELSE \A i \in 1..Len(str) : IsDigit(str[i])

RECURSIVE isPercentLoop(_, _, _)
isPercentLoop(str, i, hasPercent) ==
    IF i > Len(str) THEN hasPercent
    ELSE IF str[i] = "%" /\ ~hasPercent THEN isPercentLoop(str, i + 1, TRUE)
    ELSE IF hasPercent THEN FALSE
    ELSE isPercentLoop(str, i + 1, hasPercent)

\* bool isPercent ( const char* str )
isPercent(str) == isPercentLoop(str, 1, FALSE)

RECURSIVE atoiDigits(_, _, _)
\* the digit run at position i of str, accumulated in base ten; it ends at
\* the first character that is no digit
atoiDigits(str, i, acc) ==
    IF i > Len(str) \/ ~IsDigit(str[i]) THEN acc
    ELSE atoiDigits(str, i + 1, (acc * 10) + DigitVal(str[i]))

\* atoi that takes '-' for '+'
atoiUnsigned(str) ==
    IF str = <<>> THEN 0
    ELSE IF str[1] = "-" \/ str[1] = "+" THEN atoiDigits(str, 2, 0)
    ELSE atoiDigits(str, 1, 0)

\* atoi(): an optional sign, then the digit run.  The strings of the model
\* have digit runs of at most nine digits, which fit an int.
atoi(str) ==
    IF str = <<>> THEN 0
    ELSE IF str[1] = "-" THEN -atoiDigits(str, 2, 0)
    ELSE IF str[1] = "+" THEN atoiDigits(str, 2, 0)
    ELSE atoiDigits(str, 1, 0)

-----------------------------------------------------------------------------
(* The device registry and the classifier *)

\* a DeviceId ( vendor, product, description, brightness_min,
\* brightness_max ); the description is only printed and is left out
DeviceId(vendor, product, bmin, bmax) ==
    [vendor |-> vendor, product |-> product,
     brightness_min |-> bmin, brightness_max |-> bmax]

\* set::insert: an entry whose (vendor, product) is present is not replaced
Insert(set, d) ==
    IF \E e \in set : e.vendor = d.vendor /\ e.product = d.product
        THEN set ELSE set \cup {d}

\* is_supported on the identifiers as reported, without the masks
is_supportedRaw(info) ==
    LET product == info.product
        vendor == info.vendor
        found == {d \in supportedDevices :
                     d.vendor = vendor /\ d.product = product}
    IN  IF found # {} THEN CHOOSE d \in found : TRUE ELSE NULL

\* const DeviceId* is_supported ( const hiddev_devinfo& device_info )
is_supported(info) ==
    LET product == info.product % 65536
        vendor == info.vendor % 65536
        found == {d \in supportedDevices :
                     d.vendor = vendor /\ d.product = product}
    IN  IF found # {} THEN CHOOSE d \in found : TRUE ELSE NULL

\* bool known_vendor ( Vendor v )
known_vendor(v) == (v % 65536) \in supportedVendors

\* ( application >> 16 ) & 0xFF of a 32-bit int
AppUsagePage(application) == (application \div 65536) % 256

\* is_usb_monitor that looks at the first application only
is_usb_monitorFirst(info, apps) ==
    info.num_applications > 0 /\ AppUsagePage(apps[1]) = 128

\* bool is_usb_monitor ( const hiddev_devinfo& device_info, int fd ):
\* apps is what HIDIOCAPPLICATION returns for each index (-1 on error)
is_usb_monitor(info, apps) ==
    \E appl_num \in 0..(info.num_applications - 1) :
        AppUsagePage(apps[appl_num + 1]) = 128

-----------------------------------------------------------------------------
(* The environment: the HID device nodes of the machine *)

Hiddev0 == <<"h", "0">>     \* Apple Studio Display, monitor control interface
Hiddev1 == <<"h", "1">>     \* a second Studio Display; its driver reports the
                            \* vendor in a wider word (0x00FF05AC)
Hiddev2 == <<"h", "2">>     \* Apple Pro Display XDR (05ac:9243), a monitor
Hiddev3 == <<"h", "3">>     \* Studio Display, an interface that is no monitor
Hiddev4 == <<"h", "4">>     \* a receiver of another vendor, no monitor
NoSuchFile == <<"1", "2", "x">>     \* a path that does not exist

DevicePaths == {Hiddev0, Hiddev1, Hiddev2, Hiddev3, Hiddev4}

\* what HIDIOCGDEVINFO and HIDIOCAPPLICATION report for a node
DeviceAt(path) ==
    CASE path = Hiddev0 ->
            [vendor |-> 1452, product |-> 4372, apps |-> <<8388609>>]
      [] path = Hiddev1 ->
            [vendor |-> 16713132, product |-> 4372,
             apps |-> <<786433, 8388609>>]
      [] path = Hiddev2 ->
            [vendor |-> 1452, product |-> 37443, apps |-> <<8388609>>]
      [] path = Hiddev3 ->
            [vendor |-> 1452, product |-> 4372, apps |-> <<786433, -1>>]
      [] path = Hiddev4 ->
            [vendor |-> 1133, product |-> 50475, apps |-> <<65538, 65542>>]

\* the brightness a node may hold when the program starts: the first
\* display is dim, at half or bright, the other nodes are at half
CurValues(path) == IF path = Hiddev0 THEN {500, 30000, 59000} ELSE {30000}

\* the step granularity of a node: the second display keeps multiples of
\* 1000 only, the other nodes keep every value
DeviceStep(path) == IF path = Hiddev1 THEN 1000 ELSE 1

\* the value a node holds after HIDIOCSREPORT of v
Stored(path, v) == v - (v % DeviceStep(path))

\* held[path] is <<>> until the program first reads or writes the node
Unknown == <<>>

-----------------------------------------------------------------------------
(* Command lines *)

\* brightness tokens of the documentation
AbsTokens == { <<"0">>, <<"9", "9", "9", "9", "9", "9">> }
AbsPercentTokens ==
    { <<"0", "%">>, <<"5", "0", "%">>, <<"1", "0", "0", "%">>,
      <<"1", "5", "0", "%">> }
RelTokens ==
    { <<"+", "5", "9", "6", "0">>, <<"-", "5", "9", "6", "0">>,
      <<"+", "1", "0", "0", "0", "0", "0">>,
      <<"-", "1", "0", "0", "0", "0", "0">> }
RelPercentTokens ==
    { <<"+", "1", "0", "%">>, <<"-", "1", "0", "%">>, <<"+", "0", "%">>,
      <<"-", "0", "%">>, <<"+", "1", "5", "0", "%">>,
      <<"+", "5", "0", "0", "0", "0", "%">> }

MainTokens == AbsTokens \cup AbsPercentTokens \cup RelTokens
                  \cup RelPercentTokens

\* positional arguments of Spec
MainArgs == MainTokens \cup DevicePaths \cup {NoSuchFile}

\* positional arguments of SpecParse: every short string, and the strings
\* the documentation names
NamedStrings ==
    MainTokens \cup
    { <<"1", "2", "%", "5">>, <<"1", "2", "a">>, <<"1", "2", "x">>,
      <<"1", "%", "%">>, <<"2", "0", "%">>, <<"+", "1", "0", "0">>,
      <<"-", "1", "0", "0">>, <<"2", "0", "0", "0", "0">> }

ParseArgs == Strings(MaxLen) \cup NamedStrings

-----------------------------------------------------------------------------
(* The value resolver: the arithmetic of main() on brightness and amount *)

\* PercentBrightness without the clamp of the percentage to 0..100
PercentBrightnessUnclamped(b, dev) ==
    LET span == dev.brightness_max - dev.brightness_min
    IN  Add32(TruncDiv(Mul32(b, span), 100), dev.brightness_min)

\* brightness of an absolute percentage
PercentBrightness(b, dev) ==
    LET span == dev.brightness_max - dev.brightness_min
    IN  Add32(TruncDiv(Mul32(min(max(b, 0), 100), span), 100),
              dev.brightness_min)

\* amount of a percentage delta
PercentAmount(a, dev) ==
    LET span == dev.brightness_max - dev.brightness_min
    IN  TruncDiv(Mul32(a, span), 100)

\* RelativeBrightness without the clamp to brightness_max
RelativeBrightnessNoMax(value, a, dev) ==
    max(dev.brightness_min, Add32(value, a))

\* brightness of a relative adjustment of the value read from the device
RelativeBrightness(value, a, dev) ==
    min(dev.brightness_max, max(dev.brightness_min, Add32(value, a)))

-----------------------------------------------------------------------------
(* main(): options and positional arguments *)

Init ==
    /\ rev = "new"
    /\ pc = "start"
    /\ nargs = 0
    /\ force = FALSE
    /\ brief = FALSE
    /\ mode = USAGE_MODE_GET
    /\ brightness = 0
    /\ amount = 0
    /\ percent = FALSE
    /\ open_mode = O_RDONLY
    /\ files = <<>>
    /\ it = 1
    /\ fd = -1
    /\ openFds = {}
    /\ device_info = [vendor |-> 0, product |-> 0, num_applications |-> 0]
    /\ selected_device = NULL
    /\ usage_ref_value = 0
    /\ first_device = TRUE
    /\ exit_status = 0
    /\ held = [p \in DevicePaths |-> Unknown]
    /\ ops = <<>>
    /\ readValue = <<>>
    /\ writes = <<>>
    /\ out = <<>>
    /\ tokens = <<>>
    /\ lastArg = <<>>
    /\ supportedDevices = {}
    /\ supportedVendors = {}
    /\ applications = <<>>
    /\ result = <<>>

\* the same program start, running src/asdcontrol.cpp
InitOld ==
    /\ rev = "old"
    /\ pc = "start"
    /\ nargs = 0
    /\ force = FALSE
    /\ brief = FALSE
    /\ mode = USAGE_MODE_GET
    /\ brightness = 0
    /\ amount = 0
    /\ percent = FALSE
    /\ open_mode = O_RDONLY
    /\ files = <<>>
    /\ it = 1
    /\ fd = -1
    /\ openFds = {}
    /\ device_info = [vendor |-> 0, product |-> 0, num_applications |-> 0]
    /\ selected_device = NULL
    /\ usage_ref_value = 0
    /\ first_device = TRUE
    /\ exit_status = 0
    /\ held = [p \in DevicePaths |-> Unknown]
    /\ ops = <<>>
    /\ readValue = <<>>
    /\ writes = <<>>
    /\ out = <<>>
    /\ tokens = <<>>
    /\ lastArg = <<>>
    /\ supportedDevices = {}
    /\ supportedVendors = {}
    /\ applications = <<>>
    /\ result = <<>>

\* exit ( code )
Exit(code) == pc' = "exit" /\ exit_status' = code

\* init_device_database with the bounds of the entry exchanged
init_device_databaseSwapped ==
    /\ pc = "start"
    /\ supportedVendors' = supportedVendors \cup {APPLE}
    /\ supportedDevices' =
            Insert(supportedDevices,
                   DeviceId(APPLE, STUDIO_DISPLAY_27, 60000, 400))
    /\ pc' = "options"
    /\ UNCHANGED <<rev, nargs, force, brief, mode, brightness, amount,
                   percent, open_mode, files, it, fd, openFds, device_info,
                   selected_device, usage_ref_value, first_device,
                   exit_status, held, ops, readValue, writes, out, tokens,
                   lastArg, applications, result>>

\* void init_device_database(), the first call of main()
init_device_database ==
    /\ pc = "start"
    /\ supportedVendors' = supportedVendors \cup {APPLE}
    /\ supportedDevices' =
            Insert(supportedDevices,
                   DeviceId(APPLE, STUDIO_DISPLAY_27, 400, 60000))
    /\ pc' = "options"
    /\ UNCHANGED <<rev, nargs, force, brief, mode, brightness, amount,
                   percent, open_mode, files, it, fd, openFds, device_info,
                   selected_device, usage_ref_value, first_device,
                   exit_status, held, ops, readValue, writes, out, tokens,
                   lastArg, applications, result>>

\* the getopt_long loop: the behaviour options are set and the loop ends
ParseOptions ==
    /\ pc = "options"
    /\ \E f \in BOOLEAN, b \in BOOLEAN, d \in BOOLEAN :
        /\ force' = f
        /\ brief' = b
        /\ mode' = IF d THEN USAGE_MODE_DETECT ELSE USAGE_MODE_GET
    /\ pc' = "args"
    /\ UNCHANGED <<supportedDevices, supportedVendors, applications,
                   result, rev, nargs, brightness, amount, percent, open_mode, files,
                   it, fd, openFds, device_info, selected_device,
                   usage_ref_value, first_device, exit_status, held, ops, readValue,
                   writes, out, tokens, lastArg>>

\* the getopt_long loop: --about, --help or --list-all exit with 0, an
\* unknown option with 2
OptionExit ==
    /\ pc = "options"
    /\ \E code \in {0, 2} : Exit(code)
    /\ UNCHANGED <<supportedDevices, supportedVendors, applications,
                   result, rev, nargs, force, brief, mode, brightness, amount,
                   percent, open_mode, files, it, fd, openFds, device_info,
                   selected_device, usage_ref_value, first_device, held, ops, readValue,
                   writes, out, tokens, lastArg>>

\* number() of the revision that runs
Number(str) == IF rev = "new" THEN number(str) ELSE numberOld(str)

\* ParseStep without the test of the detection mode
ParseStepAnyMode(str) ==
    /\ lastArg' = str
    /\ nargs' = nargs + 1
    /\ IF Number(str)
        THEN /\ IF str[1] = "+" \/ str[1] = "-"
                  THEN /\ mode' = USAGE_MODE_SETREL
                       /\ amount' = atoi(str)
                       /\ UNCHANGED brightness
                  ELSE /\ mode' = USAGE_MODE_SET
                       /\ brightness' = atoi(str)
                       /\ UNCHANGED amount
             /\ percent' = IF rev = "new" THEN isPercent(str) ELSE percent
             /\ tokens' = Append(tokens, str)
             /\ UNCHANGED files
        ELSE /\ files' = Append(files, str)
             /\ UNCHANGED <<mode, brightness, amount, percent, tokens>>
    /\ UNCHANGED <<supportedDevices, supportedVendors, applications,
                   result, rev, pc, force, brief, open_mode, it, fd, openFds,
                   device_info, selected_device, usage_ref_value,
                   first_device, exit_status, held, ops, readValue, writes, out>>

\* one iteration of the loop over the positional arguments, on argv[param]
ParseStep(str) ==
    /\ lastArg' = str
    /\ nargs' = nargs + 1
    /\ IF mode # USAGE_MODE_DETECT /\ Number(str)
        THEN /\ IF str[1] = "+" \/ str[1] = "-"
                  THEN /\ mode' = USAGE_MODE_SETREL
                       /\ amount' = atoi(str)
                       /\ UNCHANGED brightness
                  ELSE /\ mode' = USAGE_MODE_SET
                       /\ brightness' = atoi(str)
                       /\ UNCHANGED amount
             /\ percent' = IF rev = "new" THEN isPercent(str) ELSE percent
             /\ tokens' = Append(tokens, str)
             /\ UNCHANGED files
        ELSE /\ files' = Append(files, str)
             /\ UNCHANGED <<mode, brightness, amount, percent, tokens>>
    /\ UNCHANGED <<supportedDevices, supportedVendors, applications,
                   result, rev, pc, force, brief, open_mode, it, fd, openFds,
                   device_info, selected_device, usage_ref_value,
                   first_device, exit_status, held, ops, readValue, writes, out>>

\* does the loop take str as a brightness token?
TakenAsToken(str) == mode # USAGE_MODE_DETECT /\ Number(str)

\* Spec: the next positional argument is a documented token or a path.
\* The command line is the documented one, <hid device(s)> [<brightness>]:
\* at most one brightness token.
ParseArg ==
    /\ pc = "args"
    /\ \E str \in MainArgs :
        /\ IF TakenAsToken(str) THEN tokens = <<>>
                                ELSE Len(files) < MaxFiles
        /\ ParseStep(str)

\* SpecParse: the one positional argument is any short string
ParseAnyArg ==
    /\ pc = "args"
    /\ nargs = 0
    /\ \E str \in ParseArgs : ParseStep(str)

\* EndArgs without the test for an empty list of paths
EndArgsUnchecked ==
    /\ pc = "args"
    /\ pc' = "open"
    /\ open_mode' = IF mode = USAGE_MODE_SET \/ mode = USAGE_MODE_SETREL
                       THEN O_RDWR ELSE O_RDONLY
    /\ UNCHANGED <<supportedDevices, supportedVendors, applications,
                   result, rev, nargs, force, brief, mode, brightness,
                   amount, percent, files, it, fd, openFds, device_info,
                   selected_device, usage_ref_value, first_device, held, ops,
                   readValue, writes, out, tokens, lastArg, exit_status>>

\* after the loop: no files is an error, otherwise the open mode is set
EndArgs ==
    /\ pc = "args"
    /\ IF files = <<>>
        THEN /\ Exit(1)
             /\ UNCHANGED open_mode
        ELSE /\ pc' = "open"
             /\ open_mode' = IF mode = USAGE_MODE_SET \/ mode = USAGE_MODE_SETREL
                                THEN O_RDWR ELSE O_RDONLY
             /\ UNCHANGED exit_status
    /\ UNCHANGED <<supportedDevices, supportedVendors, applications,
                   result, rev, nargs, force, brief, mode, brightness, amount,
                   percent, files, it, fd, openFds, device_info,
                   selected_device, usage_ref_value, first_device, held, ops, readValue,
                   writes, out, tokens, lastArg>>

-----------------------------------------------------------------------------
(* main(): the loop over the device paths *)

\* what the device loop never assigns
cmdVars == <<rev, nargs, force, brief, mode, percent, open_mode, files,
             tokens, lastArg, supportedDevices, supportedVendors,
             applications, result>>

\* the path the iterator points at
Path == files[it]

\* the descriptor open() returns: the lowest one that is free
FreeFd == CHOOSE n \in 3..(3 + Cardinality(openFds)) :
              /\ n \notin openFds
              /\ \A m \in 3..(n - 1) : m \in openFds

\* the HIDIOCAPPLICATION ioctls one call of is_usb_monitor issues
ApplicationCalls(info, apps) ==
    LET hits == {k \in 1..info.num_applications :
                    AppUsagePage(apps[k]) = 128}
        n == IF hits = {} THEN info.num_applications
             ELSE CHOOSE k \in hits : \A j \in hits : k <= j
    IN  [k \in 1..n |-> "HIDIOCAPPLICATION"]

\* continue: the iterator advances, nothing is closed
Continue == pc' = "open" /\ it' = it + 1

\* the iterator reached files.end(): main returns
Return ==
    /\ pc = "open"
    /\ it > Len(files)
    /\ Exit(0)
    /\ UNCHANGED <<cmdVars, brightness, amount, it, fd, openFds, device_info,
                   selected_device, usage_ref_value, first_device, held, ops,
                   readValue, writes, out>>

\* Open with a failure that ends the process
OpenOrExit ==
    /\ pc = "open"
    /\ it <= Len(files)
    /\ \E ok \in BOOLEAN :
        /\ ok => Path \in DevicePaths
        /\ IF ok
            THEN /\ fd' = FreeFd
                 /\ openFds' = openFds \cup {FreeFd}
                 /\ pc' = "probe"
                 /\ UNCHANGED <<it, exit_status>>
            ELSE /\ fd' = -1
                 /\ Exit(1)
                 /\ UNCHANGED <<it, openFds>>
    /\ ops' = <<>>
    /\ readValue' = <<>>
    /\ UNCHANGED <<cmdVars, brightness, amount, device_info, selected_device,
                   usage_ref_value, first_device, held, writes, out>>

\* open ( *it, open_mode ): a path that is no device node cannot be opened,
\* a device node may refuse (permissions)
Open ==
    /\ pc = "open"
    /\ it <= Len(files)
    /\ \E ok \in BOOLEAN :
        /\ ok => Path \in DevicePaths
        /\ IF ok
            THEN /\ fd' = FreeFd
                 /\ openFds' = openFds \cup {FreeFd}
                 /\ pc' = "probe"
                 /\ UNCHANGED it
            ELSE /\ fd' = -1
                 /\ Continue
                 /\ UNCHANGED openFds
    /\ ops' = <<>>
    /\ readValue' = <<>>
    /\ UNCHANGED <<cmdVars, brightness, amount, device_info, selected_device,
                   usage_ref_value, first_device, exit_status, held, writes,
                   out>>

\* HIDIOCGVERSION and HIDIOCGDEVINFO, then the detection branch
Probe ==
    /\ pc = "probe"
    /\ LET dev == DeviceAt(Path)
           info == [vendor |-> dev.vendor, product |-> dev.product,
                    num_applications |-> Len(dev.apps)]
       IN  /\ device_info' = info
           /\ IF mode = USAGE_MODE_DETECT
               THEN /\ ops' = ops \o <<"HIDIOCGVERSION", "HIDIOCGDEVINFO">>
                                  \o ApplicationCalls(info, dev.apps)
                    /\ out' = IF is_usb_monitor(info, dev.apps)
                                THEN Append(out,
                                        [kind |-> "detect", path |-> Path,
                                         supported |-> is_supported(info) # NULL,
                                         vendor |-> known_vendor(info.vendor % 65536)])
                                ELSE out
                    /\ Continue
               ELSE /\ ops' = ops \o <<"HIDIOCGVERSION", "HIDIOCGDEVINFO">>
                    /\ pc' = "classify"
                    /\ UNCHANGED <<out, it>>
    /\ UNCHANGED <<cmdVars, brightness, amount, fd, openFds, selected_device,
                   usage_ref_value, first_device, exit_status, held,
                   readValue, writes>>

\* Classify without the exit: an unsupported device is let through
ClassifyLenient ==
    /\ pc = "classify"
    /\ selected_device' = is_supported(device_info)
    /\ pc' = "gate"
    /\ UNCHANGED <<cmdVars, brightness, amount, it, fd, openFds, device_info,
                   usage_ref_value, first_device, exit_status, held, ops,
                   readValue, writes, out>>

\* selected_device = is_supported ( device_info ); exit unless forced
Classify ==
    /\ pc = "classify"
    /\ selected_device' = is_supported(device_info)
    /\ IF is_supported(device_info) = NULL /\ ~force
        THEN Exit(2)
        ELSE pc' = "gate" /\ UNCHANGED exit_status
    /\ UNCHANGED <<cmdVars, brightness, amount, it, fd, openFds, device_info,
                   usage_ref_value, first_device, held, ops, readValue,
                   writes, out>>

\* Gate with the test overridden by --force
GateForced ==
    /\ pc = "gate"
    /\ ops' = ops \o ApplicationCalls(device_info, DeviceAt(Path).apps)
    /\ IF ~is_usb_monitor(device_info, DeviceAt(Path).apps) /\ ~force
        THEN Continue
        ELSE pc' = "init" /\ UNCHANGED it
    /\ UNCHANGED <<cmdVars, brightness, amount, fd, openFds, device_info,
                   selected_device, usage_ref_value, first_device,
                   exit_status, held, readValue, writes, out>>

\* the is_usb_monitor test
Gate ==
    /\ pc = "gate"
    /\ ops' = ops \o ApplicationCalls(device_info, DeviceAt(Path).apps)
    /\ IF ~is_usb_monitor(device_info, DeviceAt(Path).apps)
        THEN Continue
        ELSE pc' = "init" /\ UNCHANGED it
    /\ UNCHANGED <<cmdVars, brightness, amount, fd, openFds, device_info,
                   selected_device, usage_ref_value, first_device,
                   exit_status, held, readValue, writes, out>>

\* InitReport with a failure that only skips the device
InitReportOrSkip ==
    /\ pc = "init"
    /\ ops' = Append(ops, "HIDIOCINITREPORT")
    /\ \E ok \in BOOLEAN :
        IF ok THEN pc' = "resolve"
              ELSE pc' = "close"
    /\ UNCHANGED <<cmdVars, brightness, amount, it, fd, openFds, device_info,
                   selected_device, usage_ref_value, first_device, held,
                   readValue, writes, out, exit_status>>

\* HIDIOCINITREPORT
InitReport ==
    /\ pc = "init"
    /\ ops' = Append(ops, "HIDIOCINITREPORT")
    /\ \E ok \in BOOLEAN :
        IF ok THEN pc' = "resolve" /\ UNCHANGED exit_status
              ELSE Exit(1)
    /\ UNCHANGED <<cmdVars, brightness, amount, it, fd, openFds, device_info,
                   selected_device, usage_ref_value, first_device, held,
                   readValue, writes, out>>

\* AfterResolve that sends a relative run to the write at once
AfterResolveWriteFirst == IF mode = USAGE_MODE_GET THEN "gusage" ELSE "susage"

\* the position after the usage_ref and rep_info assignments
AfterResolve == IF mode = USAGE_MODE_SET THEN "susage" ELSE "gusage"

\* Resolve that takes a percentage with amount == 0 for an absolute one
\* and goes on to write it
ResolveZeroAbsolute ==
    /\ pc = "resolve"
    /\ IF rev = "new" /\ percent
        THEN IF selected_device = NULL
                THEN /\ pc' = "crash"
                     /\ UNCHANGED <<brightness, amount, usage_ref_value>>
             ELSE IF amount = 0
                THEN /\ brightness' = PercentBrightness(brightness, selected_device)
                     /\ usage_ref_value' = brightness'
                     /\ pc' = "susage"
                     /\ UNCHANGED amount
             ELSE    /\ amount' = PercentAmount(amount, selected_device)
                     /\ usage_ref_value' = brightness
                     /\ pc' = AfterResolve
                     /\ UNCHANGED brightness
        ELSE /\ usage_ref_value' = brightness
             /\ pc' = AfterResolve
             /\ UNCHANGED <<brightness, amount>>
    /\ UNCHANGED <<cmdVars, it, fd, openFds, device_info, selected_device,
                   first_device, exit_status, held, ops, readValue, writes,
                   out>>

\* if (percent) { ... }, then usage_ref.value = brightness.  Reading
\* brightness_max through a null selected_device ends the process.
Resolve ==
    /\ pc = "resolve"
    /\ IF rev = "new" /\ percent
        THEN IF selected_device = NULL
                THEN /\ pc' = "crash"
                     /\ UNCHANGED <<brightness, amount, usage_ref_value>>
             ELSE IF amount = 0
                THEN /\ brightness' = PercentBrightness(brightness, selected_device)
                     /\ usage_ref_value' = brightness'
                     /\ pc' = AfterResolve
                     /\ UNCHANGED amount
             ELSE    /\ amount' = PercentAmount(amount, selected_device)
                     /\ usage_ref_value' = brightness
                     /\ pc' = AfterResolve
                     /\ UNCHANGED brightness
        ELSE /\ usage_ref_value' = brightness
             /\ pc' = AfterResolve
             /\ UNCHANGED <<brightness, amount>>
    /\ UNCHANGED <<cmdVars, it, fd, openFds, device_info, selected_device,
                   first_device, exit_status, held, ops, readValue, writes,
                   out>>

\* ioctl ( fd, HIDIOCGUSAGE, &usage_ref ): the first read, or the read
\* back after a relative write.  The device answers with the value it holds.
GetUsage ==
    /\ pc \in {"gusage", "gusage2"}
    /\ ops' = Append(ops, "HIDIOCGUSAGE")
    /\ \E ok \in BOOLEAN :
        IF ok
            THEN /\ \E v \in (IF held[Path] = Unknown THEN CurValues(Path)
                                                     ELSE {held[Path][1]}) :
                        /\ held' = [held EXCEPT ![Path] = <<v>>]
                        /\ usage_ref_value' = v
                        /\ readValue' = <<v>>
                 /\ pc' = IF pc = "gusage" THEN "greport" ELSE "greport2"
                 /\ UNCHANGED exit_status
            ELSE /\ Exit(2)
                 /\ UNCHANGED <<held, usage_ref_value, readValue>>
    /\ UNCHANGED <<cmdVars, brightness, amount, it, fd, openFds, device_info,
                   selected_device, first_device, writes, out>>

\* PrintBrightness of the value that was requested
PrintRequested ==
    Append(out, [kind |-> "brightness",
                 path |-> IF brief THEN <<>> ELSE <<Path>>,
                 value |-> brightness])

\* cout << *it << ": BRIGHTNESS=" << usage_ref.value
PrintBrightness ==
    Append(out, [kind |-> "brightness",
                 path |-> IF brief THEN <<>> ELSE <<Path>>,
                 value |-> usage_ref_value])

\* ioctl ( fd, HIDIOCGREPORT, &rep_info ), and what follows it: the relative
\* computation after the first read, the printing otherwise
GetReport ==
    /\ pc \in {"greport", "greport2"}
    /\ ops' = Append(ops, "HIDIOCGREPORT")
    /\ \E ok \in BOOLEAN :
        IF ~ok
            THEN /\ Exit(3)
                 /\ UNCHANGED <<brightness, usage_ref_value, out>>
        ELSE IF pc = "greport" /\ mode = USAGE_MODE_SETREL
            THEN IF selected_device = NULL
                    THEN /\ pc' = "crash"
                         /\ UNCHANGED <<brightness, usage_ref_value, out,
                                        exit_status>>
                    ELSE /\ brightness' = RelativeBrightness(usage_ref_value,
                                              amount, selected_device)
                         /\ usage_ref_value' = brightness'
                         /\ pc' = "susage"
                         /\ UNCHANGED <<out, exit_status>>
        ELSE /\ out' = PrintBrightness
             /\ pc' = "close"
             /\ UNCHANGED <<brightness, usage_ref_value, exit_status>>
    /\ UNCHANGED <<cmdVars, amount, it, fd, openFds, device_info,
                   selected_device, first_device, held, readValue, writes>>

\* ioctl ( fd, HIDIOCSUSAGE, &usage_ref )
SetUsage ==
    /\ pc = "susage"
    /\ ops' = Append(ops, "HIDIOCSUSAGE")
    /\ writes' = Append(writes, [path |-> Path, value |-> usage_ref_value,
                                 read |-> readValue])
    /\ \E ok \in BOOLEAN :
        IF ok THEN pc' = "sreport" /\ UNCHANGED exit_status
              ELSE Exit(2)
    /\ UNCHANGED <<cmdVars, brightness, amount, it, fd, openFds, device_info,
                   selected_device, usage_ref_value, first_device, held,
                   readValue, out>>

\* SetReport with the exit status of a usage failure
SetReportExit2 ==
    /\ pc = "sreport"
    /\ ops' = Append(ops, "HIDIOCSREPORT")
    /\ \E ok \in BOOLEAN :
        IF ok
            THEN /\ held' = [held EXCEPT
                             ![Path] = <<Stored(Path, usage_ref_value)>>]
                 /\ pc' = IF mode = USAGE_MODE_SET THEN "close" ELSE "gusage2"
                 /\ UNCHANGED exit_status
            ELSE /\ Exit(2)
                 /\ UNCHANGED held
    /\ UNCHANGED <<cmdVars, brightness, amount, it, fd, openFds, device_info,
                   selected_device, usage_ref_value, first_device, readValue,
                   writes, out>>

\* ioctl ( fd, HIDIOCSREPORT, &rep_info ): the device takes the value
SetReport ==
    /\ pc = "sreport"
    /\ ops' = Append(ops, "HIDIOCSREPORT")
    /\ \E ok \in BOOLEAN :
        IF ok
            THEN /\ held' = [held EXCEPT
                             ![Path] = <<Stored(Path, usage_ref_value)>>]
                 /\ pc' = IF mode = USAGE_MODE_SET THEN "close" ELSE "gusage2"
                 /\ UNCHANGED exit_status
            ELSE /\ Exit(3)
                 /\ UNCHANGED held
    /\ UNCHANGED <<cmdVars, brightness, amount, it, fd, openFds, device_info,
                   selected_device, usage_ref_value, first_device, readValue,
                   writes, out>>

\* close ( fd ); first_device=false; and the loop's ++it
Close ==
    /\ pc = "close"
    /\ openFds' = openFds \ {fd}
    /\ first_device' = FALSE
    /\ Continue
    /\ UNCHANGED <<cmdVars, brightness, amount, fd, device_info,
                   selected_device, usage_ref_value, exit_status, held, ops,
                   readValue, writes, out>>

DeviceLoop ==
    \/ Return \/ Open \/ Probe \/ Classify \/ Gate \/ InitReport \/ Resolve
    \/ GetUsage \/ GetReport \/ SetUsage \/ SetReport \/ Close

-----------------------------------------------------------------------------
(* Specifications *)

Next ==
    \/ init_device_database
    \/ ParseOptions \/ OptionExit \/ ParseArg \/ EndArgs \/ DeviceLoop

\* a run of the current revision
Spec == Init /\ [][Next]_vars

\* a run of src/asdcontrol.cpp
SpecOld == InitOld /\ [][Next]_vars

NextParse ==
    \/ init_device_database
    \/ ParseOptions \/ OptionExit \/ ParseAnyArg \/ EndArgs

\* the argument loop of the current revision on any short string
SpecParse == Init /\ [][NextParse]_vars

\* the argument loop of src/asdcontrol.cpp on any short string
SpecParseOld == InitOld /\ [][NextParse]_vars

-----------------------------------------------------------------------------
(* The vocabulary of the properties: tokens, bounds and clamping as the    *)
(* specification words them                                                *)

HasSign(s) == s # <<>> /\ (s[1] = "+" \/ s[1] = "-")

EndsInPercent(s) == s # <<>> /\ s[Len(s)] = "%"

\* the token without its sign and without its final percent sign
DigitRun(s) ==
    LET body == IF HasSign(s) THEN Tail(s) ELSE s
    IN  IF EndsInPercent(body) THEN SubSeq(body, 1, Len(body) - 1) ELSE body

AllDigits(run) == \A i \in 1..Len(run) : run[i] \in Digits

RECURSIVE Pow10(_)
Pow10(n) == IF n = 0 THEN 1 ELSE 10 * Pow10(n - 1)

RECURSIVE PositionalSum(_, _)
\* the sum of the first k digits of run, each weighted by its position
PositionalSum(run, k) ==
    IF k = 0 THEN 0
    ELSE (DigitVal(run[k]) * Pow10(Len(run) - k)) + PositionalSum(run, k - 1)

\* the decimal value of a run of digits
DecimalValue(run) == PositionalSum(run, Len(run))

\* the magnitude and the sign of a token
Magnitude(s) == DecimalValue(DigitRun(s))
SignOf(s) == IF s # <<>> /\ s[1] = "-" THEN -1 ELSE 1

\* an optional sign, one or more digits, an optional final percent sign
GrammarAccepts(s) == DigitRun(s) # <<>> /\ AllDigits(DigitRun(s))

\* a first character that is no digit and no sign, a later character that
\* is neither a digit nor a percent sign, or a percent sign before the end
GrammarRejects(s) ==
    /\ s # <<>>
    /\ \/ ~(s[1] \in Digits \/ s[1] = "+" \/ s[1] = "-")
       \/ \E i \in 2..Len(s) : ~(s[i] \in Digits \/ s[i] = "%")
       \/ \E i \in 1..(Len(s) - 1) : s[i] = "%"

Clamp(v, lo, hi) == IF v < lo THEN lo ELSE IF v > hi THEN hi ELSE v

\* the registry entry of the device at a path, NULL when it has none
ModelOf(path) ==
    IF path \in DevicePaths
        THEN is_supported([vendor |-> DeviceAt(path).vendor,
                           product |-> DeviceAt(path).product])
        ELSE NULL

\* the command line has exactly one brightness token, t
OnlyToken(t) == tokens = <<t>>

-----------------------------------------------------------------------------
(* The classifier functions on any device: after init_device_database()   *)
(* one of them is called on a device_info and on the HIDIOCAPPLICATION    *)
(* answers drawn at the start                                              *)

\* vendor words a driver may report: Apple, Apple with high bits set
\* (0x00FF05AC, and 0xFFFF05AC as an int), a receiver's vendor, Apple + 1
CallVendors == {1452, 16713132, -64084, 1133, 1453}

\* product words: Studio Display, the same with high bits set, Pro Display
\* XDR (0x9243, and as a sign-extended 16-bit value), none
CallProducts == {4372, 200980, 37443, -28093, 0}

\* application identifiers: Monitor Control (0x00800000, 0x00800001 and
\* 0xFF800001 as an int), Consumer Control, Generic Desktop, 0x80 in the
\* low byte or in the top byte only, and -1 (ioctl error)
CallApplications ==
    {8388608, 8388609, -8388607, 786433, 65538, 128, MinInt32, -1}

AnswerLists == UNION {[1..n -> CallApplications] : n \in 0..MaxApps}

InitCall ==
    /\ rev = "new"
    /\ pc = "start"
    /\ nargs = 0
    /\ force = FALSE
    /\ brief = FALSE
    /\ mode = USAGE_MODE_GET
    /\ brightness = 0
    /\ amount = 0
    /\ percent = FALSE
    /\ open_mode = O_RDONLY
    /\ files = <<>>
    /\ it = 1
    /\ fd = -1
    /\ openFds = {}
    /\ applications \in AnswerLists
    /\ device_info \in [vendor : CallVendors, product : CallProducts,
                         num_applications : {Len(applications)}]
    /\ selected_device = NULL
    /\ usage_ref_value = 0
    /\ first_device = TRUE
    /\ exit_status = 0
    /\ held = [p \in DevicePaths |-> Unknown]
    /\ ops = <<>>
    /\ readValue = <<>>
    /\ writes = <<>>
    /\ out = <<>>
    /\ tokens = <<>>
    /\ lastArg = <<>>
    /\ supportedDevices = {}
    /\ supportedVendors = {}
    /\ result = <<>>

callVars == <<rev, nargs, force, brief, mode, brightness, amount, percent,
              open_mode, files, it, fd, openFds, device_info,
              usage_ref_value, first_device, exit_status, held, ops,
              readValue, writes, out, tokens, lastArg, supportedDevices,
              supportedVendors, applications>>

\* is_usb_monitor ( device_info, fd )
CallIsUsbMonitor ==
    /\ pc = "options"
    /\ result' = <<"is_usb_monitor",
                   is_usb_monitor(device_info, applications)>>
    /\ pc' = "called"
    /\ UNCHANGED <<callVars, selected_device>>

\* selected_device = is_supported ( device_info )
CallIsSupported ==
    /\ pc = "options"
    /\ selected_device' = is_supported(device_info)
    /\ result' = <<"is_supported", is_supported(device_info)>>
    /\ pc' = "called"
    /\ UNCHANGED callVars

\* known_vendor ( device_info.vendor )
CallKnownVendor ==
    /\ pc = "options"
    /\ result' = <<"known_vendor", known_vendor(device_info.vendor)>>
    /\ pc' = "called"
    /\ UNCHANGED <<callVars, selected_device>>

NextCall ==
    \/ init_device_database
    \/ CallIsUsbMonitor \/ CallIsSupported \/ CallKnownVendor

SpecCall == InitCall /\ [][NextCall]_vars

-----------------------------------------------------------------------------
(* Properties of the value resolver, under Spec *)

\* C1: every value handed to HIDIOCSUSAGE for a device whose model is in the
\* registry lies within brightness_min..brightness_max of that model, in
\* every mode and for every token.
C1_WritesWithinBounds ==
    \A i \in 1..Len(writes) :
        LET w == writes[i]
            d == ModelOf(w.path)
        IN  d # NULL =>
                d.brightness_min <= w.value /\ w.value <= d.brightness_max

\* C2: with one absolute token without a percent sign, of magnitude m, the
\* value written to a supported device is m clamped into its bounds (999999
\* is written as 60000 and 0 as 400 for bounds [400,60000]).
C2_AbsoluteClamped ==
    \A i \in 1..Len(writes) :
        LET w == writes[i]
            d == ModelOf(w.path)
            t == tokens[1]
        IN  (/\ Len(tokens) = 1
             /\ ~HasSign(t)
             /\ ~EndsInPercent(t)
             /\ d # NULL)
            => w.value = Clamp(Magnitude(t), d.brightness_min, d.brightness_max)

\* C3: with one absolute percentage token of magnitude m and a single
\* supported device, the value written is
\* min + (clamp(m,0,100) * (max - min)) / 100; for bounds [400,60000] 50%
\* gives 30200, 100% gives 60000, 0% gives 400 and any m > 100 gives 60000.
C3_AbsolutePercent ==
    \A i \in 1..Len(writes) :
        LET w == writes[i]
            d == ModelOf(w.path)
            t == tokens[1]
            m == Magnitude(t)
        IN  (/\ Len(tokens) = 1
             /\ ~HasSign(t)
             /\ EndsInPercent(t)
             /\ Len(files) = 1
             /\ d # NULL)
            => /\ w.value = d.brightness_min
                    + ((Clamp(m, 0, 100)
                          * (d.brightness_max - d.brightness_min)) \div 100)
               /\ (d.brightness_min = 400 /\ d.brightness_max = 60000)
                    => /\ m = 50 => w.value = 30200
                       /\ m = 100 => w.value = 60000
                       /\ m = 0 => w.value = 400
                       /\ m > 100 => w.value = 60000

\* C3, witness: "50%" on the Studio Display writes 30200.
C3_Witness ==
    /\ tokens = << <<"5", "0", "%">> >>
    /\ files = <<Hiddev0>>
    /\ Len(writes) = 1
    /\ writes[1].value = 30200

ScaledDelta(m, span) ==
    (m * (span \div 100)) + ((m * (span % 100)) \div 100)

\* C5: with one relative percentage token (sign s, magnitude m) and a single
\* supported device read as cur, the value written is
\* clamp(cur + s * (m * (max - min) / 100), min, max), m not being clamped
\* to 0..100.
C5_RelativePercent ==
    \A i \in 1..Len(writes) :
        LET w == writes[i]
            d == ModelOf(w.path)
            t == tokens[1]
        IN  (/\ Len(tokens) = 1
             /\ HasSign(t)
             /\ EndsInPercent(t)
             /\ Len(files) = 1
             /\ d # NULL)
            => /\ w.read # <<>>
               /\ w.value =
                    Clamp(w.read[1]
                            + (SignOf(t)
                                 * ScaledDelta(Magnitude(t),
                                      d.brightness_max - d.brightness_min)),
                          d.brightness_min, d.brightness_max)

\* C6: with a percentage token, two supported devices of the same bounds
\* that were read with the same current value are written the same value.
C6_DevicesIndependent ==
    \A i \in 1..Len(writes) : \A j \in 1..Len(writes) :
        (/\ Len(tokens) = 1
         /\ EndsInPercent(tokens[1])
         /\ ModelOf(writes[i].path) # NULL
         /\ ModelOf(writes[j].path) # NULL
         /\ ModelOf(writes[i].path).brightness_min
              = ModelOf(writes[j].path).brightness_min
         /\ ModelOf(writes[i].path).brightness_max
              = ModelOf(writes[j].path).brightness_max
         /\ writes[i].read = writes[j].read)
        => writes[i].value = writes[j].value

-----------------------------------------------------------------------------
(* Properties of the token parser, under SpecParse and SpecParseOld *)

\* the strings with an empty digit run that the specification names
EmptyDigitRuns ==
    { <<>>, <<"+">>, <<"-">>, <<"%">>, <<"+", "%">>, <<"-", "%">> }

\* C7: a string with an empty digit run is never a brightness token:
\* number() is false for "", "+", "-", "%", "+%" and "-%", and the argument
\* loop leaves the mode as it was and takes the string as a path.
C7_EmptyDigitRun ==
    (nargs = 1 /\ lastArg \in EmptyDigitRuns)
        => /\ ~number(lastArg)
           /\ tokens = <<>>
           /\ files = <<lastArg>>
           /\ mode \in {USAGE_MODE_GET, USAGE_MODE_DETECT}

\* C8: the argument loop takes a string as a path, leaving the mode as it
\* was and raising no error, whenever its first character is no digit and no
\* sign, or a later character is neither a digit nor '%', or a '%' stands
\* before the end; and number() accepts an optional sign, one or more digits
\* and an optional final '%', the loop then taking it as the brightness
\* token unless the mode is detection.
C8_Classification ==
    [][nargs' = nargs + 1 =>
        /\ GrammarRejects(lastArg') =>
             /\ ~number(lastArg')
             /\ files' = Append(files, lastArg')
             /\ tokens' = tokens
             /\ mode' = mode
             /\ pc' = pc
             /\ exit_status' = exit_status
        /\ GrammarAccepts(lastArg') =>
             /\ number(lastArg')
             /\ mode # USAGE_MODE_DETECT =>
                  /\ tokens' = Append(tokens, lastArg')
                  /\ files' = files
                  /\ mode' \in {USAGE_MODE_SET, USAGE_MODE_SETREL}
    ]_vars

\* C8, witness: "12%5" has become the first path and the mode is still Get.
C8_Witness ==
    /\ nargs = 1
    /\ lastArg = <<"1", "2", "%", "5">>
    /\ files = << <<"1", "2", "%", "5">> >>
    /\ tokens = <<>>
    /\ mode = USAGE_MODE_GET

\* C9: for every token the loop accepts, '+' selects relative mode with a
\* positive amount, '-' relative mode with a negative amount, no sign
\* absolute mode; the magnitude is the decimal value of the digit run; and
\* percent is set exactly when the token ends in '%'.
C9_TokenFields ==
    (nargs = 1 /\ tokens = <<lastArg>>)
        => /\ lastArg[1] = "+" =>
                 mode = USAGE_MODE_SETREL /\ amount = Magnitude(lastArg)
           /\ lastArg[1] = "-" =>
                 mode = USAGE_MODE_SETREL /\ amount = -Magnitude(lastArg)
           /\ ~HasSign(lastArg) =>
                 mode = USAGE_MODE_SET /\ brightness = Magnitude(lastArg)
           /\ percent = EndsInPercent(lastArg)
           /\ lastArg = <<"-", "5", "9", "6", "0">> =>
                 mode = USAGE_MODE_SETREL /\ amount = -5960 /\ ~percent
           /\ lastArg = <<"2", "0", "%">> =>
                 mode = USAGE_MODE_SET /\ brightness = 20 /\ percent
           /\ lastArg = <<"+", "1", "0", "%">> =>
                 mode = USAGE_MODE_SETREL /\ amount = 10 /\ percent

\* C9, witness: "-5960" has been taken as a relative delta of -5960.
C9_Witness ==
    /\ nargs = 1
    /\ tokens = << <<"-", "5", "9", "6", "0">> >>
    /\ mode = USAGE_MODE_SETREL
    /\ amount = -5960
    /\ ~percent

\* a sign followed by one or more digits
SignedDigits(s) == HasSign(s) /\ Len(s) >= 2 /\ AllDigits(Tail(s))

\* C10: in src/asdcontrol.cpp a sign followed by digits ("+100", "-100") is
\* taken as the brightness token and selects relative mode, it is no path.
C10_SignedTokenOld ==
    (nargs = 1 /\ SignedDigits(lastArg) /\ mode # USAGE_MODE_DETECT)
        => /\ numberOld(lastArg)
           /\ mode = USAGE_MODE_SETREL
           /\ amount = SignOf(lastArg) * Magnitude(lastArg)
           /\ files = <<>>

-----------------------------------------------------------------------------
(* Properties of the device loop, under Spec *)

\* the ioctls that change a device
WriteOps == {"HIDIOCSUSAGE", "HIDIOCSREPORT"}
UsageOps == {"HIDIOCGUSAGE", "HIDIOCSUSAGE"}
ReportOps == {"HIDIOCGREPORT", "HIDIOCSREPORT"}

\* does the node at a path implement the Monitor Control application?
IsMonitor(path) ==
    /\ path \in DevicePaths
    /\ is_usb_monitor([vendor |-> DeviceAt(path).vendor,
                       product |-> DeviceAt(path).product,
                       num_applications |-> Len(DeviceAt(path).apps)],
                      DeviceAt(path).apps)

\* this step issues an ioctl of the set S on the device that is open
Issues(S) == ops' # ops /\ ops' # <<>> /\ ops'[Len(ops')] \in S

\* C11: no HIDIOCSUSAGE, HIDIOCSREPORT or HIDIOCINITREPORT is ever issued on
\* a device for which is_usb_monitor is false, with or without --force and
\* whether or not the model is in the registry.
C11_NonMonitorUntouched ==
    [][Issues(WriteOps \cup {"HIDIOCINITREPORT"}) => IsMonitor(Path)]_vars

\* a forced Set run has left a device of another vendor that is no monitor
C11_Witness ==
    /\ force
    /\ mode = USAGE_MODE_SET
    /\ pc = "open"
    /\ it = 2
    /\ files[1] = Hiddev4
    /\ ops # <<>>
    /\ ops[Len(ops)] = "HIDIOCAPPLICATION"
    /\ writes = <<>>

\* the positions of the device loop after the registry lookup; "exit" with
\* it inside the list is an exit from the body of the loop
PastClassify ==
    /\ pc \in {"gate", "init", "resolve", "gusage", "greport", "susage",
               "sreport", "gusage2", "greport2", "close", "crash", "exit"}
    /\ it <= Len(files)

\* the process has ended in the body of the loop, at the device it opened
ExitedAtDevice == pc = "exit" /\ it <= Len(files)

NoWriteIn(log) == \A k \in 1..Len(log) : log[k] \notin WriteOps

SupportedMonitor(path) == ModelOf(path) # NULL /\ IsMonitor(path)

\* C13: an unregistered device met without --force aborts only that device:
\* the process does not end there while a supported monitor is still to
\* come in the list of paths.
C13_UnsupportedAbortsOnlyDevice ==
    (~force /\ ExitedAtDevice /\ ModelOf(Path) = NULL)
        => \A j \in (it + 1)..Len(files) : ~SupportedMonitor(files[j])

\* C14: with --force an unregistered monitor-control device is usable in
\* every mode: selected_device is not null wherever brightness_min or
\* brightness_max is read through it, so the process never ends in the
\* read of the bounds of a model that does not exist, for relative and
\* percentage tokens included.
C14_ForcedBoundsNeverNull ==
    (force /\ it <= Len(files) /\ IsMonitor(Path) /\ ModelOf(Path) = NULL)
        => pc # "crash"

\* C15: a path that cannot be opened is skipped: the step in which open()
\* returns a negative descriptor issues no ioctl, leaves the exit status and
\* the devices alone and moves the loop to the next path, which is then
\* attempted; a path that is no device node is never probed.
C15_OpenFailureSkipped ==
    [][ /\ (pc = "open" /\ it <= Len(files) /\ fd' < 0)
            => /\ ops' = <<>>
               /\ pc' = "open"
               /\ it' = it + 1
               /\ UNCHANGED <<exit_status, held, writes, out>>
        /\ (pc = "open" /\ it <= Len(files) /\ Path \notin DevicePaths)
            => fd' < 0
      ]_vars

\* the first path could not be opened and the second one was read
C15_Witness ==
    /\ files = <<NoSuchFile, Hiddev0>>
    /\ it = 2
    /\ pc = "close"
    /\ Len(out) = 1
    /\ out[1].path = <<Hiddev0>>

\* the process has ended in the body of the loop and the last ioctl it
\* issued is one of the set S: that ioctl failed
FailedAt(S) == ExitedAtDevice /\ ops # <<>> /\ ops[Len(ops)] \in S

\* C16: a failed HIDIOCINITREPORT ends the whole process with exit status 1:
\* the failing step leads to the exit with status 1 and HIDIOCINITREPORT as
\* the last ioctl of the device, and nothing is done after it (no usage or
\* report ioctl, no open of a later path).
C16_InitFailureFatal ==
    [][ /\ (pc = "init" /\ pc' # "resolve")
            => /\ FailedAt({"HIDIOCINITREPORT"})'
               /\ exit_status' = 1
               /\ \A k \in 1..Len(ops') :
                        ops'[k] \notin UsageOps \cup ReportOps
               /\ UNCHANGED <<it, fd, openFds, held, writes, out>>
        /\ ~FailedAt({"HIDIOCINITREPORT"})
      ]_vars

\* HIDIOCINITREPORT failed on the first of two displays
C16_Witness ==
    /\ FailedAt({"HIDIOCINITREPORT"})
    /\ exit_status = 1
    /\ files = <<Hiddev0, Hiddev1>>
    /\ it = 1
    /\ mode = USAGE_MODE_SETREL

\* C17: the exit status tells the failing step: a step that issues
\* HIDIOCGUSAGE or HIDIOCSUSAGE and ends the process ends it with status 2,
\* one that issues HIDIOCGREPORT or HIDIOCSREPORT ends it with status 3, at
\* the read, the write and the read back, in every mode.
C17_FailingStepStatus ==
    [][ /\ (Issues(UsageOps) /\ pc' = "exit")
            => exit_status' = 2 /\ FailedAt(UsageOps)'
        /\ (Issues(ReportOps) /\ pc' = "exit")
            => exit_status' = 3 /\ FailedAt(ReportOps)'
      ]_vars

\* a relative run wrote the value and the HIDIOCGREPORT of the read back
\* failed
C17_Witness ==
    /\ FailedAt({"HIDIOCGREPORT"})
    /\ exit_status = 3
    /\ mode = USAGE_MODE_SETREL
    /\ \E k \in 1..Len(ops) : ops[k] = "HIDIOCSREPORT"

\* C18: a failed usage or report ioctl aborts only its device: the process
\* does not end at that device while paths remain in the list.
C18_UsageFailureLocal ==
    FailedAt(UsageOps \cup ReportOps) => it = Len(files)

ReadOnlyModes == {USAGE_MODE_DETECT, USAGE_MODE_GET}

\* C19: in Detect and in Get mode nothing is written: every open() is made
\* with O_RDONLY, no step issues HIDIOCSUSAGE or HIDIOCSREPORT and no device
\* changes its value; in Detect mode every positional argument, a
\* numeric-looking one included, becomes a path and the mode stays Detect.
C19_ReadOnlyModes ==
    [][ /\ (mode \in ReadOnlyModes /\ pc = "open" /\ it <= Len(files))
            => open_mode = O_RDONLY
        /\ (mode \in ReadOnlyModes /\ pc \notin {"options", "args"})
            => /\ ~Issues(WriteOps)
               /\ writes' = <<>>
               /\ \A p \in DevicePaths :
                    held[p] # Unknown => held'[p] = held[p]
        /\ (mode = USAGE_MODE_DETECT /\ nargs' = nargs + 1)
            => /\ mode' = USAGE_MODE_DETECT
               /\ files' = Append(files, lastArg')
               /\ tokens' = <<>>
               /\ brightness' = 0 /\ amount' = 0
      ]_vars

\* a detection run over "0" and a Studio Display: "0" was taken as a path
\* that cannot be opened, the display was reported
C19_Witness ==
    /\ mode = USAGE_MODE_DETECT
    /\ files = << <<"0">>, Hiddev0 >>
    /\ it = 3
    /\ pc = "exit"
    /\ open_mode = O_RDONLY
    /\ Len(out) = 1
    /\ out[1].kind = "detect"
    /\ writes = <<>>

\* the last n entries of a sequence
LastN(s, n) == SubSeq(s, Len(s) - n + 1, Len(s))

-----------------------------------------------------------------------------
(* Further properties of the value resolver, under Spec *)

ZeroPercentTokens == { <<"+", "0", "%">>, <<"-", "0", "%">> }

InBounds(v, d) == d.brightness_min <= v /\ v <= d.brightness_max

\* C21: with the token "+0%" or "-0%", every value handed to a supported
\* device that was read within its bounds is the value that was read, and
\* after the write the device holds what it held before.
C21_ZeroPercentIdempotent ==
    (Len(tokens) = 1 /\ tokens[1] \in ZeroPercentTokens) =>
        /\ \A i \in 1..Len(writes) :
                LET w == writes[i]
                    d == ModelOf(w.path)
                IN  d # NULL =>
                        /\ w.read # <<>>
                        /\ InBounds(w.read[1], d) => w.value = w.read[1]
        /\ (/\ pc \in {"gusage2", "greport2", "close"}
            /\ ModelOf(Path) # NULL
            /\ InBounds(writes[Len(writes)].read[1], ModelOf(Path)))
           => held[Path] = writes[Len(writes)].read

\* "-0%" on a Studio Display that held 59000: 59000 was written back
C21_Witness ==
    /\ tokens = << <<"-", "0", "%">> >>
    /\ pc = "close"
    /\ Path = Hiddev0
    /\ writes = <<[path |-> Hiddev0, value |-> 59000, read |-> <<59000>>]>>
    /\ held[Hiddev0] = <<59000>>

-----------------------------------------------------------------------------
(* Properties of the classifier, under SpecCall *)

\* bits 16-23 of the 32-bit word of an int: for a negative int the word is
\* the int plus 2^32, and dropping bit 31 leaves bits 16-23 as they are
Bits16to23(a) ==
    LET low31 == IF a >= 0 THEN a ELSE (a + MaxInt32) + 1
    IN  (low31 \div 65536) % 256

Called(fn) == result # <<>> /\ result[1] = fn

\* C22: is_usb_monitor returns true exactly when one of the
\* num_applications identifiers has bits 16-23 equal to 0x80: true for a
\* list with 0x00800000 in it, false for the empty list and for a list of
\* ioctl errors (-1).
C22_MonitorTest ==
    Called("is_usb_monitor") =>
        LET n == device_info.num_applications
            hit == \E k \in 1..n : Bits16to23(applications[k]) = 128
        IN  /\ result[2] = hit
            /\ (\E k \in 1..n : applications[k] = 8388608) => result[2]
            /\ (\A k \in 1..n : applications[k] = -1) => ~result[2]

\* Consumer Control, an ioctl error and then 0x00800000: a monitor
C22_Witness ==
    /\ Called("is_usb_monitor")
    /\ applications = <<786433, -1, 8388608>>
    /\ result[2] = TRUE

\* the products the README names: Studio Display and Pro Display XDR
NamedProducts == {STUDIO_DISPLAY_27, 37443}

\* C23: a device that reports vendor 0x05ac and product 0x1114 or 0x9243 is
\* classified as a supported model.
C23_NamedDisplaysSupported ==
    (/\ Called("is_supported")
     /\ device_info.vendor = APPLE
     /\ device_info.product \in NamedProducts)
        => result[2] # NULL

-----------------------------------------------------------------------------
(* Properties of the registry and of main(), under Spec *)

\* C24: once init_device_database() has returned, supportedDevices has the
\* entry (0x05ac, 0x1114) with bounds [400, 60000], every entry has
\* brightness_min <= brightness_max, and no later step of the run adds,
\* removes or changes an entry.
C24_RegistryFixed ==
    /\ [](pc # "start" =>
            /\ DeviceId(APPLE, STUDIO_DISPLAY_27, 400, 60000)
                    \in supportedDevices
            /\ APPLE \in supportedVendors
            /\ \A d \in supportedDevices :
                    d.brightness_min <= d.brightness_max)
    /\ [][pc # "start" => supportedDevices' = supportedDevices]_vars

\* a percentage was resolved from the bounds of the entry and written to
\* two displays
C24_Witness ==
    /\ pc = "close"
    /\ it = 2
    /\ percent
    /\ Len(writes) = 2
    /\ selected_device \in supportedDevices
    /\ Cardinality(supportedDevices) = 1

\* C25: when the positional arguments leave no device path (there is none,
\* or there are only brightness tokens), the step that ends the argument
\* loop ends the process with exit status 1, and nothing was opened and no
\* ioctl was issued.
C25_NoPathsExit ==
    /\ [](files = <<>> =>
            /\ pc \in {"start", "options", "args", "exit"}
            /\ fd = -1 /\ openFds = {}
            /\ ops = <<>> /\ writes = <<>> /\ out = <<>>)
    /\ [][(pc = "args" /\ pc' # "args" /\ files = <<>>)
            => pc' = "exit" /\ exit_status' = 1]_vars

\* the only positional argument was the token "50%"
C25_Witness ==
    /\ pc = "exit"
    /\ exit_status = 1
    /\ files = <<>>
    /\ tokens = << <<"5", "0", "%">> >>
    /\ nargs = 1

\* C26: with one relative percentage token and one supported device read
\* within its bounds, a '+' token never writes less than the value read and
\* writes brightness_max when the scaled sum reaches it, for every magnitude
\* ("+50000%" included); a '-' token never writes more than the value read.
C26_SaturatingPercent ==
    \A i \in 1..Len(writes) :
        LET w == writes[i]
            d == ModelOf(w.path)
            t == tokens[1]
        IN  (/\ Len(tokens) = 1
             /\ HasSign(t)
             /\ EndsInPercent(t)
             /\ Len(files) = 1
             /\ d # NULL
             /\ w.read # <<>>
             /\ InBounds(w.read[1], d))
            => IF SignOf(t) = 1
                THEN /\ w.value >= w.read[1]
                     /\ (w.read[1] + ScaledDelta(Magnitude(t),
                                d.brightness_max - d.brightness_min)
                            >= d.brightness_max)
                        => w.value = d.brightness_max
                ELSE w.value <= w.read[1]

\* C27: the descriptor of a device is closed on every way out of its
\* block: when the loop is about to open the next path, or ends, no
\* descriptor is open, so at most one is open at any time.
C27_HandleReleased ==
    /\ Cardinality(openFds) <= 1
    /\ pc = "open" => openFds = {}

\* the last ioctl issued on the device that is open
LastOp == IF ops = <<>> THEN "" ELSE ops[Len(ops)]

Has(log, op) == \E k \in 1..Len(log) : log[k] = op

\* C28: the paths are taken in the order given, one at a time (the
\* iterator only moves to the next path, and only into the open of that
\* path); a usage or report ioctl is issued only after HIDIOCGDEVINFO, the
\* registry test, the monitor test and HIDIOCINITREPORT of that device;
\* HIDIOCSREPORT only directly after HIDIOCSUSAGE, HIDIOCGREPORT only
\* directly after HIDIOCGUSAGE; and in relative mode HIDIOCSUSAGE only
\* directly after HIDIOCGUSAGE and HIDIOCGREPORT of that device.
C28_FixedOrder ==
    [][ /\ it' = it \/ (it' = it + 1 /\ pc' = "open")
        /\ (pc' = "probe" /\ pc # "probe")
            => pc = "open" /\ ops' = <<>> /\ it' = it
        /\ Issues(UsageOps \cup ReportOps)
            => /\ it' = it
               /\ Has(ops, "HIDIOCGDEVINFO")
               /\ selected_device = is_supported(device_info)
               /\ selected_device # NULL \/ force
               /\ IsMonitor(Path)
               /\ Has(ops, "HIDIOCINITREPORT")
        /\ Issues({"HIDIOCSREPORT"}) => LastOp = "HIDIOCSUSAGE"
        /\ Issues({"HIDIOCGREPORT"}) => LastOp = "HIDIOCGUSAGE"
        /\ (mode = USAGE_MODE_SETREL /\ Issues({"HIDIOCSUSAGE"}))
            => /\ Len(ops) >= 2
               /\ LastN(ops, 2) = <<"HIDIOCGUSAGE", "HIDIOCGREPORT">>
      ]_vars

\* a relative run is done with its second display
C28_Witness ==
    /\ mode = USAGE_MODE_SETREL
    /\ pc = "close"
    /\ it = 2
    /\ Len(writes) = 2
    /\ writes[1].path # writes[2].path
    /\ LastN(ops, 7) = <<"HIDIOCINITREPORT", "HIDIOCGUSAGE", "HIDIOCGREPORT",
                         "HIDIOCSUSAGE", "HIDIOCSREPORT",
                         "HIDIOCGUSAGE", "HIDIOCGREPORT">>

\* the low 16 bits of the 32-bit word of an int
Mask16(v) ==
    LET low31 == IF v >= 0 THEN v ELSE (v + MaxInt32) + 1
    IN  low31 % 65536

Masked(info) ==
    [info EXCEPT !.vendor = Mask16(info.vendor),
                 !.product = Mask16(info.product)]

\* C29: is_supported classifies (v, p) as it classifies (v & 0xFFFF,
\* p & 0xFFFF): vendor 0x00FF05AC with product 0x1114 gets the Apple entry,
\* as vendor 0x05AC does, and known_vendor(0x00FF05AC) is true.
C29_MaskedIdentifiers ==
    /\ Called("is_supported") =>
            /\ result[2] = is_supported(Masked(device_info))
            /\ (Mask16(device_info.vendor) = APPLE
                    /\ Mask16(device_info.product) = STUDIO_DISPLAY_27)
                <=> result[2] = DeviceId(APPLE, STUDIO_DISPLAY_27, 400, 60000)
            /\ (device_info.vendor = 16713132 /\ device_info.product = 4372)
                => result[2] # NULL
    /\ Called("known_vendor") =>
            /\ result[2] = known_vendor(Mask16(device_info.vendor))
            /\ result[2] <=> Mask16(device_info.vendor) = APPLE
            /\ device_info.vendor = 16713132 => result[2]

\* vendor 0x00FF05AC with product 0x1114 was classified
C29_Witness ==
    /\ Called("is_supported")
    /\ device_info.vendor = 16713132
    /\ device_info.product = 4372
    /\ selected_device = DeviceId(APPLE, STUDIO_DISPLAY_27, 400, 60000)

====
